---- MODULE Spec2Model ----
(***************************************************************************)
(* A model of aiotfm's Client (src/aiotfm/client.py) and Room              *)
(* (src/aiotfm/room.py).                                                   *)
(*                                                                         *)
(* Spec          the room / roster / trade frames of Client.handle_packet  *)
(*               and Client.handle_old_packet.                             *)
(*                                                                         *)
(* BusSpec       Client.wait_for, Client.dispatch, Client.event and        *)
(*               Client._run_event, driven by the frames (26, 25),         *)
(*               (29, 6) and (26, 12).                                     *)
(*                                                                         *)
(* ItemSpec      Spec with the (31, 8) item frames, for one trade.         *)
(*                                                                         *)
(* HandshakeSpec Client.start, the handler of the (26, 3) frame and         *)
(*               Client._heartbeat_loop, interleaved at their awaits.      *)
(*                                                                         *)
(* HeartbeatSpec HandshakeSpec with the heartbeat task scheduled fairly.   *)
(*                                                                         *)
(* TableSpec     the frames no branch of the handlers matches.             *)
(*                                                                         *)
(* BulleSpec     Client.start, the handlers of the (44, 1) frames,         *)
(*               Client.sendRoomMessage and Client.close.                  *)
(*                                                                         *)
(* Python's None is the empty sequence for an optional object (room) and   *)
(* the index 0 for an optional reference into Client.trades (Client.trade, *)
(* Player.trade).  Client.trades only grows, so a trade is named by its    *)
(* index in it.                                                            *)
(***************************************************************************)
EXTENDS Integers, Sequences, FiniteSets, TLC

(***************************************************************************)
(* Bounds of the model.                                                    *)
(***************************************************************************)
MaxTrades == 2
MaxItemTrades == 1
MaxNet == 1
MaxQuantity == 1
MaxWaiters == 2
MaxTasks == 1
MaxTime == 30
MaxSwitches == 2
MaxSent == 2
MaxHandshakes == 1
MaxBeats == 2
MaxCalls == 3

VARIABLES
    room,       \* Client.room: <<>> (None) or <<[players]>>
    trade,      \* Client.trade: index into trades, 0 for None
    trades,     \* Client.trades
    received,   \* history: per trade, the signed deltas received per side and id
    events,     \* history: the recorded events the last frame dispatched, in order
    last,       \* history: what the last frame found
    raised,     \* history: the last frame's handler ended in an exception
    _waiters,   \* Client._waiters: event name -> list of (condition, future, stop)
    futures,    \* the futures wait_for made, in the order they were made
    handlers,   \* the on_<event> attributes of the client
    tasks,      \* the _run_event tasks scheduled and not run yet
    closing,    \* loop.call_later(5, self.close) was called
    disp,       \* history: the last call of dispatch
    reported,   \* history: what the last _run_event task passed to on_error
    main,       \* Client.main: the connection and the frames written on it
    shake,      \* the handler of the (26, 3) frame: its position and locals
    beat,       \* the tasks of Client._heartbeat_loop: their positions and locals
    now,        \* loop.time(), in seconds
    starting,   \* the task of Client.start: its position and the connects it made
    loop,       \* Client.loop: stopped or not, and the tasks that still run once
    bulle,      \* Client.bulle: index into conns, 0 for None
    conns,      \* the room connections made, in the order they were made
    switches,   \* the handlers of the (44, 1) frames: position and locals
    cp_fingerprint, \* Client.cp_fingerprint, as <<high, low>> 16-bit halves
    calls       \* the calls of Client.sendCP: position, locals and result

tradeVars == <<room, trade, trades, received, events, last, raised>>

busVars == <<_waiters, futures, handlers, tasks, closing, disp, reported>>

shakeVars == <<main, shake, beat, now, starting, loop>>

bulleVars == <<bulle, conns, switches>>

cpVars == <<cp_fingerprint, calls>>

vars == <<tradeVars, busVars, shakeVars, bulleVars, cpVars>>

None == <<>>
\* The persistent ids the frames carry.
Pids == {1, 2}
ItemIds == {10, 20}
Quantities == 0..MaxQuantity
ErrorCodes == {0, 3}

\* The name a roster frame gives the player with persistent id pid.
UserName(pid) == IF pid = 1 THEN "Alice" ELSE "Bob"
\* The names a trade-error frame may carry.
FrameNames == {""} \cup {UserName(p) : p \in Pids}

EmptyDict == [k \in {} |-> 0]
ZeroNet == [k \in ItemIds |-> 0]

\* Player.from_packet: a new Player, holding no trade.
Player(pid) == [pid |-> pid, username |-> UserName(pid), trade |-> 0]

\* Room(private, name): a room without players (its name and privacy are not read
\* by any handler modelled here).
Room == [players |-> <<>>]

\* Trade(player, client): a trade with player, nothing offered, nothing locked.
Trade(player) ==
    [pid |-> player.pid, username |-> player.username,
     alive |-> FALSE, on_invite |-> FALSE,
     items_me |-> EmptyDict, items_other |-> EmptyDict,
     locked_me |-> FALSE, locked_other |-> FALSE]

Event(ev, t, x) == [ev |-> ev, t |-> t, x |-> x]

\* What is kept of the last frame: its kind and, for an item frame, the lock
\* flags the current trade had when it arrived.
Frame(kind) == [kind |-> kind, pre_me |-> FALSE, pre_other |-> FALSE, handled |-> TRUE]

\* Room.get_players(filter on pid): the positions of the players with that pid.
get_players(players, pid) == {i \in 1..Len(players) : players[i].pid = pid}

Min(S) == CHOOSE x \in S : \A y \in S : x <= y

\* Room.get_player(pid=pid): the position of the first such player, 0 for None.
get_player(players, pid) ==
    IF get_players(players, pid) = {} THEN 0 ELSE Min(get_players(players, pid))

KeepAll(players, i) == players

\* list.remove(players[i])
Remove(players, i) ==
    [k \in 1..(Len(players) - 1) |-> IF k < i THEN players[k] ELSE players[k + 1]]

\* A trade both traders accepted: alive and no longer an invitation.
Active(t) == t.alive /\ ~t.on_invite

TradeInit ==
    /\ room = None
    /\ trade = 0
    /\ trades = <<>>
    /\ received = <<>>
    /\ events = <<>>
    /\ last = Frame("none")
    /\ raised = FALSE

(***************************************************************************)
(* Trade._close, Trade._update_player (aiotfm/inventory.py).  A closed     *)
(* trade is no longer alive, is no longer the current trade and no longer  *)
(* the trade of its player; it stays in Client.trades.                     *)
(***************************************************************************)
ClosePlayers(players, i) ==
    [k \in 1..Len(players) |->
        IF players[k].trade = i THEN [players[k] EXCEPT !.trade = 0] ELSE players[k]]

_close_keeping_current(st, i) ==
    [st EXCEPT !.trades[i].alive = FALSE,
               !.players = ClosePlayers(st.players, i)]

\* st is [players, trades, trade, events]: the room's players, Client.trades,
\* Client.trade and the events dispatched so far.
_close(st, i) ==
    [st EXCEPT !.trades[i].alive = FALSE,
               !.players = ClosePlayers(st.players, i),
               !.trade = IF st.trade = i THEN 0 ELSE st.trade]

_update_player(st, i, after) ==
    [st EXCEPT !.trades[i].pid = st.players[after].pid,
               !.trades[i].username = st.players[after].username,
               !.players[after].trade = i]

\* The events recorded: those about a trade or about one player.
Recorded ==
    {"trade_invite", "trade_error", "trade_close", "trade_start", "trade_item_change",
     "trade_lock", "trade_complete", "player_join", "player_update", "player_remove"}

Dispatched(st, ev, t, x) ==
    IF ev \in Recorded
    THEN [st EXCEPT !.events = Append(st.events, Event(ev, t, x))]
    ELSE st

State(players) == [players |-> players, trades |-> trades, trade |-> trade, events |-> <<>>]

\* The handler ran to its end with the state st.
Handled(st, frame) ==
    /\ room' = IF room = None THEN None ELSE <<[room[1] EXCEPT !.players = st.players]>>
    /\ trades' = st.trades
    /\ trade' = st.trade
    /\ events' = st.events
    /\ last' = frame
    /\ raised' = FALSE
    /\ UNCHANGED <<busVars, shakeVars, bulleVars, cpVars>>

\* The handler raised after reaching the state st.
Raised(st, frame) ==
    /\ room' = IF room = None THEN None ELSE <<[room[1] EXCEPT !.players = st.players]>>
    /\ trades' = st.trades
    /\ trade' = st.trade
    /\ events' = st.events
    /\ last' = frame
    /\ raised' = TRUE
    /\ UNCHANGED <<busVars, shakeVars, bulleVars, cpVars>>

\* The handler raised before it changed anything.
RaisedAtOnce(frame) ==
    /\ UNCHANGED <<room, trades, trade, received, busVars, shakeVars, bulleVars, cpVars>>
    /\ events' = <<>>
    /\ last' = frame
    /\ raised' = TRUE

(***************************************************************************)
(* (5, 21) Joined room                                                     *)
(***************************************************************************)
JoinedRoom ==
    /\ room' = <<Room>>
    /\ events' = <<>>
    /\ last' = Frame("joined_room")
    /\ raised' = FALSE
    /\ UNCHANGED <<trade, trades, received, busVars, shakeVars, bulleVars, cpVars>>

(***************************************************************************)
(* (144, 1) Set player list                                                *)
(***************************************************************************)
Rosters ==
    {<<>>} \cup {<<p>> : p \in Pids}
           \cup {x \in Pids \X Pids : x[1] # x[2]}

RECURSIVE SyncTrades(_, _, _)
SyncTrades(before, k, st) ==
    IF k > Len(before) THEN st
    ELSE LET player == before[k]
             after == get_player(st.players, player.pid)
         IN  IF player.trade = 0 THEN SyncTrades(before, k + 1, st)
             ELSE IF after # 0
                  THEN SyncTrades(before, k + 1, _update_player(st, player.trade, after))
                  ELSE SyncTrades(before, k + 1,
                           Dispatched(_close(st, player.trade), "trade_close", player.trade, 0))

\* The active trades of the players of before that are not in the roster.
HeldByAbsent(before, roster) ==
    {before[k].trade : k \in {j \in 1..Len(before) :
        /\ before[j].trade # 0
        /\ Active(trades[before[j].trade])
        /\ \A n \in 1..Len(roster) : roster[n] # before[j].pid}}

SetPlayerList(roster) ==
    LET frame == Frame("set_player_list")
    IN  IF room = None THEN RaisedAtOnce(frame)
        ELSE LET before == room[1].players
                 players == [k \in 1..Len(roster) |-> Player(roster[k])]
                 st == SyncTrades(before, 1, State(players))
             IN  /\ Handled(Dispatched(st, "bulk_player_update", 0, 0), frame)
                 /\ UNCHANGED received

(***************************************************************************)
(* (144, 2) Add a player                                                   *)
(***************************************************************************)
AddPlayer(pid) ==
    LET frame == Frame("add_player")
    IN  IF room = None THEN RaisedAtOnce(frame)
        ELSE LET before == get_player(room[1].players, pid)
                 appended == Append(room[1].players, Player(pid))
             IN  /\ UNCHANGED received
                 /\ IF before = 0
                    THEN Handled(Dispatched(State(appended), "player_join", 0, 0), frame)
                    ELSE LET t == room[1].players[before].trade
                             removed == State(Remove(appended, before))
                             after == Len(removed.players)
                             st == IF t # 0 THEN _update_player(removed, t, after) ELSE removed
                         IN  Handled(Dispatched(st, "player_update", 0, 0), frame)

(***************************************************************************)
(* old protocol (8, 7) Remove a player.  A Player has no item access, so   *)
(* player[1] raises TypeError.                                             *)
(***************************************************************************)
OldPacket(players) == Dispatched(State(players), "old_packet", 0, 0)

RemovePlayer(pid) ==
    IF room = None
    THEN RaisedAtOnce(Frame("remove_player"))
    ELSE LET player == get_player(room[1].players, pid)
             t == IF player = 0 THEN 0 ELSE room[1].players[player].trade
             frame == Frame("remove_player")
         IN  /\ UNCHANGED received
             /\ IF player = 0 THEN Handled(OldPacket(room[1].players), frame)
                ELSE LET removed == OldPacket(Remove(room[1].players, player))
                     IN  IF t # 0 THEN Raised(removed, frame)
                         ELSE Handled(Dispatched(removed, "player_remove", 0, 0), frame)

(***************************************************************************)
(* (31, 5) Trade invite                                                    *)
(***************************************************************************)
TradeInvite(pid, limit) ==
    LET frame == Frame("trade_invite")
    IN  IF room = None THEN RaisedAtOnce(frame)
        ELSE LET player == get_player(room[1].players, pid)
                 i == Len(trades) + 1
             IN  IF player = 0 THEN RaisedAtOnce(frame)
                 ELSE /\ Len(trades) < limit
                      /\ room' = <<[room[1] EXCEPT !.players[player].trade = i]>>
                      /\ trades' = Append(trades,
                             [Trade(room[1].players[player]) EXCEPT
                                 !.alive = TRUE, !.on_invite = TRUE])
                      /\ received' = Append(received, [me |-> ZeroNet, other |-> ZeroNet])
                      /\ events' = <<Event("trade_invite", i, 0)>>
                      /\ last' = frame
                      /\ raised' = FALSE
                      /\ UNCHANGED <<trade, busVars, shakeVars, bulleVars, cpVars>>

(***************************************************************************)
(* (31, 6) Trade error                                                     *)
(***************************************************************************)
\* The trades the frame concerns: the current one for the empty name, those
\* with the named player otherwise.
Concerned(name) ==
    IF name = "" THEN {trade} \ {0}
    ELSE {i \in 1..Len(trades) : trades[i].username = name}

ErrorAndClose(st, t, closed, error) ==
    Dispatched(Dispatched(st, "trade_error", t, error), "trade_close", closed, 0)

TradeError(name, error) ==
    LET frame == Frame("trade_error")
        players == IF room = None THEN <<>> ELSE room[1].players
        named == {i \in 1..Len(trades) : trades[i].username = name}
    IN  /\ UNCHANGED received
        /\ IF name = ""
           THEN IF trade = 0 THEN RaisedAtOnce(frame)
                ELSE IF trades[trade].username = name
                     THEN LET st == _close(State(players), trade)
                          IN  Handled(ErrorAndClose(st, st.trade, st.trade, error), frame)
                     ELSE Handled(State(players), frame)
           ELSE IF named = {} THEN Handled(State(players), frame)
                ELSE LET i == Min(named)
                     IN  Handled(ErrorAndClose(_close(State(players), i), i, i, error), frame)

(***************************************************************************)
(* (31, 7) Trade start                                                     *)
(***************************************************************************)
TradeStart(pid) ==
    LET frame == Frame("trade_start")
    IN  IF room = None THEN RaisedAtOnce(frame)
        ELSE LET player == get_player(room[1].players, pid)
                 t == IF player = 0 THEN 0 ELSE room[1].players[player].trade
             IN  IF t = 0 THEN RaisedAtOnce(frame)
                 ELSE LET start == [State(room[1].players) EXCEPT
                                       !.trades[t].on_invite = FALSE,
                                       !.trades[t].alive = TRUE]
                          closed == IF trade # 0
                                    THEN Dispatched(_close(start, trade), "trade_close", trade, 0)
                                    ELSE start
                          st == [closed EXCEPT !.trade = closed.players[player].trade]
                      IN  /\ Handled(Dispatched(st, "trade_start", st.trade, 0), frame)
                          /\ UNCHANGED received

(***************************************************************************)
(* (31, 8) Trade items                                                     *)
(***************************************************************************)
\* AddItem, keeping an entry that nets to zero.
AddItemKeepingZero(items, id, quantity) ==
    IF id \in DOMAIN items
    THEN [items EXCEPT ![id] = items[id] + quantity]
    ELSE [k \in DOMAIN items \cup {id} |-> IF k = id THEN quantity ELSE items[k]]

\* The item mapping after a signed quantity of id is put into it.
AddItem(items, id, quantity) ==
    LET added == IF id \in DOMAIN items
                 THEN [items EXCEPT ![id] = items[id] + quantity]
                 ELSE [k \in DOMAIN items \cup {id} |-> IF k = id THEN quantity ELSE items[k]]
    IN  IF added[id] = 0
        THEN [k \in DOMAIN added \ {id} |-> added[k]]
        ELSE added

\* Unlock, resetting the client's own lock only.
UnlockMine(t) == [t EXCEPT !.locked_me = FALSE]

\* The trade after an item change: nothing is locked any more.
Unlock(t) == [t EXCEPT !.locked_me = FALSE, !.locked_other = FALSE]

Signed(adding, quantity) == (IF adding THEN 1 ELSE -1) * quantity

Get(items, id) == IF id \in DOMAIN items THEN items[id] ELSE 0

TradeItems(me, id, adding, quantity) ==
    LET signed == Signed(adding, quantity)
    IN  IF trade = 0
        THEN RaisedAtOnce(Frame("trade_items"))
        ELSE LET t == trades[trade]
                 frame == [Frame("trade_items") EXCEPT
                              !.pre_me = t.locked_me, !.pre_other = t.locked_other]
                 items == AddItem(IF me THEN t.items_me ELSE t.items_other, id, signed)
                 changed == IF me THEN [t EXCEPT !.items_me = items]
                            ELSE [t EXCEPT !.items_other = items]
             IN  /\ Get(items, id) \in -MaxNet..MaxNet
                 /\ trades' = [trades EXCEPT ![trade] = Unlock(changed)]
                 /\ received' = [received EXCEPT
                        ![trade] = IF me THEN [@ EXCEPT !.me[id] = @ + signed]
                                   ELSE [@ EXCEPT !.other[id] = @ + signed]]
                 /\ events' = <<Event("trade_item_change", trade, signed)>>
                 /\ last' = frame
                 /\ raised' = FALSE
                 /\ UNCHANGED <<room, trade, busVars, shakeVars, bulleVars, cpVars>>

(***************************************************************************)
(* (31, 9) Trade lock                                                      *)
(***************************************************************************)
TradeLock(me, locked) ==
    LET frame == Frame("trade_lock")
    IN  IF trade = 0 THEN RaisedAtOnce(frame)
        ELSE /\ trades' = [trades EXCEPT ![trade] =
                    IF me THEN [@ EXCEPT !.locked_me = locked]
                    ELSE [@ EXCEPT !.locked_other = locked]]
             /\ events' = <<Event("trade_lock", trade, 0)>>
             /\ last' = frame
             /\ raised' = FALSE
             /\ UNCHANGED <<room, trade, received, busVars, shakeVars, bulleVars, cpVars>>

(***************************************************************************)
(* (31, 10) Trade complete                                                 *)
(***************************************************************************)
TradeComplete ==
    LET frame == Frame("trade_complete")
    IN  IF trade = 0 THEN RaisedAtOnce(frame)
        ELSE /\ Handled(Dispatched(_close(State(room[1].players), trade),
                                   "trade_complete", trade, 0), frame)
             /\ UNCHANGED received

(***************************************************************************)
(* The event bus: Client.wait_for, Client.dispatch, Client.event,          *)
(* Client._run_event.                                                      *)
(***************************************************************************)
\* The events the frames of BusSpec dispatch.
Events ==
    {"ping", "lua_log", "login_result", "login_ready", "heartbeat", "raw_cp", "old_packet"}

\* The event names callers pass to wait_for.
WaitNames == {"on_ping", "ON_LUA_LOG", "on_login_result"}

\* str.lower
Lower(name) == IF name = "ON_LUA_LOG" THEN "on_lua_log" ELSE name

\* method = 'on_' + event
Method(event) == "on_" \o event

Methods == {Method(e) : e \in Events}

\* The conditions callers pass: the default one (always true) and
\* lambda *a: a[0] == 2, which raises IndexError without arguments.
Conditions == {"default", "first_is_2"}

\* bool(cond(*args)): "true", "false" or "raise".
Eval(cond, args) ==
    IF cond = "default" THEN "true"
    ELSE IF Len(args) = 0 THEN "raise"
    ELSE IF args[1] = 2 THEN "true" ELSE "false"

\* args[0] if len(args)==1 else args if len(args) else None
Payload(args) ==
    IF Len(args) = 1 THEN [is |-> "arg", v |-> <<args[1]>>]
    ELSE IF Len(args) # 0 THEN [is |-> "tuple", v |-> args]
    ELSE [is |-> "None", v |-> <<>>]

Pending == [state |-> "pending", value |-> [is |-> "None", v |-> <<>>]]
Cancelled == [state |-> "cancelled", value |-> [is |-> "None", v |-> <<>>]]
Result(args) == [state |-> "result", value |-> Payload(args)]
Exception(name) == [state |-> "exception", value |-> [is |-> name, v |-> <<>>]]

NoDispatch ==
    [method |-> "", args |-> <<>>, out |-> "none", evaluated |-> <<>>, scheduled |-> FALSE]

NoReport == [event |-> "", error |-> "", args |-> <<>>]

BusInit ==
    /\ _waiters = [m \in {} |-> <<>>]
    /\ futures = <<>>
    /\ handlers = [m \in Methods |-> IF m = "on_login_result" THEN "default" ELSE "none"]
    /\ tasks = <<>>
    /\ closing = FALSE
    /\ disp = NoDispatch
    /\ reported = NoReport

(***************************************************************************)
(* Client.wait_for                                                         *)
(***************************************************************************)
wait_for(event, condition, stopPropagation) ==
    LET name == Lower(event)
        fut == Len(futures) + 1
        entry == [cond |-> condition, fut |-> fut, stop |-> stopPropagation]
    IN  /\ Len(futures) < MaxWaiters
        /\ futures' = Append(futures, Pending)
        /\ _waiters' =
               [m \in DOMAIN _waiters \cup {name} |->
                   IF m = name
                   THEN Append(IF name \in DOMAIN _waiters THEN _waiters[name] ELSE <<>>, entry)
                   ELSE _waiters[m]]
        /\ UNCHANGED <<handlers, tasks, closing, disp, reported, tradeVars, shakeVars, bulleVars, cpVars>>

\* asyncio.wait_for(future, timeout): every caller passes a timeout; it
\* elapses, the future is cancelled and the caller gets TimeoutError.
Registered == UNION {{_waiters[m][i] : i \in 1..Len(_waiters[m])} : m \in DOMAIN _waiters}

TimedOut(fut) ==
    /\ fut \in 1..Len(futures)
    /\ futures[fut].state = "pending"
    /\ \E w \in Registered : w.fut = fut
    /\ futures' = [futures EXCEPT ![fut] = Cancelled]
    /\ UNCHANGED <<_waiters, handlers, tasks, closing, disp, reported, tradeVars, shakeVars, bulleVars, cpVars>>

(***************************************************************************)
(* Client.event: setattr(self, name, coro)                                 *)
(***************************************************************************)
Decorated == {"on_lua_log", "on_login_result"}

event(name) ==
    /\ handlers[name] # "user"
    /\ handlers' = [handlers EXCEPT ![name] = "user"]
    /\ UNCHANGED <<_waiters, futures, tasks, closing, disp, reported, tradeVars, shakeVars, bulleVars, cpVars>>

(***************************************************************************)
(* Client.dispatch                                                         *)
(***************************************************************************)
NeverStops(w) == FALSE

\* if stop: the waiter ends the dispatch.
Stops(w) == w.stop

\* The loop over the waiters of the method, from position i on.  acc holds the
\* futures, to_remove, the futures whose condition was evaluated, and how the
\* loop went on: "loop", "stop" (it returned at position at) or "raise"
\* (set_result or set_exception raised InvalidStateError).
RECURSIVE Scan(_, _, _, _)
Scan(waiters, i, args, acc) ==
    IF i > Len(waiters) THEN acc
    ELSE LET w == waiters[i]
             fut == acc.futures[w.fut]
             result == Eval(w.cond, args)
             seen == [acc EXCEPT !.evaluated = Append(@, w.fut)]
         IN  IF fut.state = "cancelled"
             THEN Scan(waiters, i + 1, args, [acc EXCEPT !.to_remove = Append(@, i)])
             ELSE IF result # "false" /\ fut.state # "pending"
             THEN [seen EXCEPT !.out = "raise", !.at = i]
             ELSE IF result = "raise"
             THEN Scan(waiters, i + 1, args,
                       [seen EXCEPT !.futures[w.fut] = Exception("IndexError")])
             ELSE IF result = "true"
             THEN LET set == [seen EXCEPT !.futures[w.fut] = Result(args)]
                  IN  IF Stops(w) THEN [set EXCEPT !.out = "stop", !.at = i]
                      ELSE Scan(waiters, i + 1, args, [set EXCEPT !.to_remove = Append(@, i)])
             ELSE Scan(waiters, i + 1, args, seen)

\* for i in to_remove[::-1]: del waiters[i]
Without(waiters, indices) ==
    LET kept == {i \in 1..Len(waiters) : \A k \in 1..Len(indices) : indices[k] # i}
        \* the n-th kept position
        nth[n \in 1..Cardinality(kept)] ==
            CHOOSE i \in kept : Cardinality({j \in kept : j <= i}) = n
    IN  [n \in 1..Cardinality(kept) |-> waiters[nth[n]]]

\* The registry after the loop.
WaitersAfter(method, acc) ==
    IF acc.out = "raise" THEN _waiters
    ELSE IF acc.out = "stop"
    THEN [_waiters EXCEPT ![method] = Without(@, <<acc.at>>)]
    ELSE IF Len(acc.to_remove) = Len(_waiters[method])
    THEN [m \in DOMAIN _waiters \ {method} |-> _waiters[m]]
    ELSE [_waiters EXCEPT ![method] = Without(@, acc.to_remove)]

\* ensure_future(self._run_event(coro, method, *args))
Task(method, args) == [method |-> method, args |-> args, coro |-> handlers[method]]

dispatch(ev, args) ==
    LET method == Method(ev)
        start == [futures |-> futures, to_remove |-> <<>>, evaluated |-> <<>>,
                  out |-> "loop", at |-> 0]
        acc == IF method \in DOMAIN _waiters
               THEN Scan(_waiters[method], 1, args, start)
               ELSE start
        scheduled == acc.out = "loop" /\ handlers[method] # "none"
    IN  /\ Len(tasks) < MaxTasks
        /\ futures' = acc.futures
        /\ _waiters' = IF method \in DOMAIN _waiters THEN WaitersAfter(method, acc) ELSE _waiters
        /\ tasks' = IF scheduled THEN Append(tasks, Task(method, args)) ELSE tasks
        /\ disp' = [method |-> method, args |-> args, out |-> acc.out,
                    evaluated |-> acc.evaluated, scheduled |-> scheduled]
        /\ UNCHANGED <<handlers, closing, reported>>

(***************************************************************************)
(* The frames that dispatch: (26, 25) ping, (29, 6) Lua logs, (26, 12)     *)
(* login result.  The strings of a frame are numbers here.                 *)
(***************************************************************************)
LoginCodes == {1, 2, 3}
LogLines == {1, 2}

Ping == dispatch("ping", <<>>) /\ UNCHANGED <<tradeVars, shakeVars, bulleVars, cpVars>>

LuaLog(line) == dispatch("lua_log", <<line>>) /\ UNCHANGED <<tradeVars, shakeVars, bulleVars, cpVars>>

LoginResult(code) ==
    dispatch("login_result", <<code, 0, 0>>) /\ UNCHANGED <<tradeVars, shakeVars, bulleVars, cpVars>>

(***************************************************************************)
(* Client._run_event, with Client.on_login_result and a caller's handler    *)
(***************************************************************************)
\* The exception on_login_result raises for a code.
LoginFailure(code) ==
    IF code = 1 THEN "AlreadyConnected"
    ELSE IF code = 2 THEN "IncorrectPassword"
    ELSE "LoginError"

\* The next task runs Client.on_login_result.
\* The mutation of on_error that drops the arguments of the event.
on_error_without_args(task, err) == [event |-> task.method, error |-> err, args |-> <<>>]

\* await self.on_error(event_name, e, *args): what on_error is called with.
on_error(task, err) == [event |-> task.method, error |-> err, args |-> task.args]

on_login_result ==
    /\ tasks # <<>>
    /\ Head(tasks).coro = "default"
    /\ tasks' = Tail(tasks)
    /\ closing' = TRUE
    /\ reported' = on_error(Head(tasks), LoginFailure(Head(tasks).args[1]))
    /\ UNCHANGED <<_waiters, futures, handlers, disp, tradeVars, shakeVars, bulleVars, cpVars>>

\* The next task runs a handler of the caller, which returns or raises.
on_event(raises) ==
    /\ tasks # <<>>
    /\ Head(tasks).coro = "user"
    /\ tasks' = Tail(tasks)
    /\ reported' = IF raises THEN on_error(Head(tasks), "Exception") ELSE NoReport
    /\ UNCHANGED <<_waiters, futures, handlers, closing, disp, tradeVars, shakeVars, bulleVars, cpVars>>

(***************************************************************************)
(* Frames that no branch of handle_packet or handle_old_packet handles     *)
(***************************************************************************)
\* Opcode pairs, community platform codes and old-protocol opcode pairs
\* that have no branch.
UnknownCodes == {<<1, 2>>, <<200, 1>>}
UnknownTCs == {2, 4}
UnknownOldCodes == {<<8, 8>>}

\* return False
Unhandled(kind) == [Frame(kind) EXCEPT !.handled = FALSE]

\* The branch ran dispatch first: dispatch raised, or the branch went on to
\* return False.
DispatchedUnhandled(kind) ==
    IF disp'.out = "raise"
    THEN last' = Frame(kind) /\ raised' = TRUE
    ELSE last' = Unhandled(kind) /\ raised' = FALSE

\* handle_packet, the last else.
UnknownPacket(CCC) ==
    /\ last' = Unhandled("unknown")
    /\ raised' = FALSE
    /\ events' = <<>>
    /\ UNCHANGED <<room, trade, trades, received, busVars, shakeVars, bulleVars, cpVars>>

\* handle_packet (60, 3), the last else: raw_cp is dispatched with the code
\* and the packet first.
UnknownCP(TC) ==
    /\ dispatch("raw_cp", <<TC, 0>>)
    /\ DispatchedUnhandled("unknown_cp")
    /\ events' = <<>>
    /\ UNCHANGED <<room, trade, trades, received, shakeVars, bulleVars, cpVars>>

\* handle_packet (1, 1) and handle_old_packet, the last else: old_packet is
\* dispatched with the connection, the opcode pair and the data first.
UnknownOldPacket(oldCCC) ==
    /\ dispatch("old_packet", <<0, oldCCC, <<>>>>)
    /\ DispatchedUnhandled("unknown_old")
    /\ events' = <<>>
    /\ UNCHANGED <<room, trade, trades, received, shakeVars, bulleVars, cpVars>>

(***************************************************************************)
(* The handshake and the heartbeat.  Connection is not part of the         *)
(* sources: its send writes the frame on the connection and is a           *)
(* suspension point of the calling task.                                   *)
(***************************************************************************)
\* Packet.new(C, CC)
Packet(C, CC) == <<C, CC>>

\* Connection.send: the frame is written.
send(connection, packet) == [connection EXCEPT !.sent = Append(@, packet)]

\* Connection.send on a closed connection fails: it raises and writes nothing.
\* The position of a task that ended in an exception is "raised".
Sent(connection, packet) == IF connection.open THEN send(connection, packet) ELSE connection
After(connection, pc) == IF connection.open THEN pc ELSE "raised"

\* The tasks of the loop.
Tasks == {"start", "handler", "heartbeat"}

\* A task runs while the loop is not stopped; loop.stop() lets the loop end
\* its current iteration, so a task that was ready in it runs one more step.
Runs(task) == ~loop.stopped \/ task \in loop.batch

\* The task runs up to its next suspension.
Step(task) ==
    /\ Runs(task)
    /\ loop' = [loop EXCEPT !.batch = @ \ {task}]

\* Seconds between two heartbeats.
Interval == 15

\* The fields of the (26, 3) frame.
Online == {500}
Fingerprints == {7}

\* The byte of a (44, 22) frame.
Offsets == {9}

\* Seconds the clock advances by in one step.
Quantum == 5

ShakeInit ==
    /\ main = [open |-> FALSE, fingerprint |-> 0, sent |-> <<>>]
    /\ shake = [pc |-> "idle", online_players |-> 0, fingerprint |-> 0, mark |-> 0]
    /\ beat = <<>>
    /\ now = 0
    /\ starting = [pc |-> "idle", tried |-> <<>>, error |-> ""]
    /\ loop = [stopped |-> FALSE, batch |-> {}]

\* self.loop.create_task(self._heartbeat_loop()): the task has not run yet.
\* began is the time its last heartbeat began, -1 before the first, and
\* frames the connections that heartbeat has written on so far.
_heartbeat_loop == [pc |-> "loop", last_heartbeat |-> 0, began |-> -1, frames |-> <<>>]

\* (26, 3) arrives on main, in reply to the (28, 1) frame of start, when the
\* handler of an earlier (26, 3) frame, if any, is over.  Up to the suspension
\* in the first send: the fingerprint is set, a heartbeat task is created and
\* the (8, 2) frame is written.
HandshakeOK(online_players, fingerprint, limit) ==
    /\ main.open
    /\ ~loop.stopped
    /\ starting.pc \in {"locale", "done"}
    /\ shake.pc \in {"idle", "done", "raised"}
    /\ Len(beat) < limit
    /\ shake' = [pc |-> "community", online_players |-> online_players,
                 fingerprint |-> fingerprint, mark |-> Len(main.sent)]
    /\ beat' = Append(beat, _heartbeat_loop)
    /\ main' = send([main EXCEPT !.fingerprint = fingerprint], Packet(8, 2))
    /\ UNCHANGED <<now, starting, loop, tradeVars, busVars, bulleVars, cpVars>>

\* (26, 3) resumes: the (28, 17) frame is written.
SendOsInfo ==
    /\ shake.pc = "community"
    /\ Step("handler")
    /\ shake' = [shake EXCEPT !.pc = After(main, "os_info")]
    /\ main' = Sent(main, Packet(28, 17))
    /\ UNCHANGED <<beat, now, starting, tradeVars, busVars, bulleVars, cpVars>>

LoginReadyArgsSwapped(online_players, community, country) ==
    <<online_players, country, community>>

\* self.dispatch('login_ready', online_players, community, country)
LoginReadyArgs(online_players, community, country) ==
    <<online_players, community, country>>

\* (26, 3) resumes: login_ready is dispatched with the players online, the
\* community (1 here) and the country (2 here).
LoginReady ==
    /\ shake.pc = "os_info"
    /\ Step("handler")
    /\ shake' = [shake EXCEPT !.pc = "done"]
    /\ dispatch("login_ready", LoginReadyArgs(shake.online_players, 1, 2))
    /\ UNCHANGED <<main, beat, now, starting, tradeVars, bulleVars, cpVars>>

\* (44, 22) arrives on main: connection.fingerprint = packet.read8()
FingerprintChanged(fingerprint) ==
    /\ main.open
    /\ ~loop.stopped
    /\ main.fingerprint # fingerprint
    /\ main' = [main EXCEPT !.fingerprint = fingerprint]
    /\ UNCHANGED <<shake, beat, now, starting, loop, tradeVars, busVars, bulleVars, cpVars>>

AlwaysDue(last_heartbeat) == TRUE

\* if self.loop.time()-last_heartbeat>=15
Due(last_heartbeat) == now - last_heartbeat >= Interval

\* The heartbeat task k at the head of its loop: it ends when main is closed,
\* writes the first (26, 26) frame when a heartbeat is due, sleeps otherwise.
HeartbeatLoop(k) ==
    /\ k \in 1..Len(beat)
    /\ beat[k].pc = "loop"
    /\ Step("heartbeat")
    /\ IF ~main.open
       THEN beat' = [beat EXCEPT ![k].pc = "ended"] /\ UNCHANGED main
       ELSE IF Due(beat[k].last_heartbeat)
       THEN /\ beat' = [beat EXCEPT ![k].pc = "first", ![k].began = now,
                                    ![k].frames = <<"main">>]
            /\ main' = send(main, Packet(26, 26))
       ELSE beat' = [beat EXCEPT ![k].pc = "sleep"] /\ UNCHANGED main
    /\ UNCHANGED <<shake, now, starting, tradeVars, busVars, bulleVars, cpVars>>

\* The heartbeat task k resumes: the second (26, 26) frame is written.
HeartbeatAgain(k) ==
    /\ k \in 1..Len(beat)
    /\ beat[k].pc = "first"
    /\ Step("heartbeat")
    /\ beat' = [beat EXCEPT ![k].pc = After(main, "second"),
                            ![k].frames = IF main.open THEN Append(@, "main") ELSE @]
    /\ main' = Sent(main, Packet(26, 26))
    /\ UNCHANGED <<shake, now, starting, tradeVars, busVars, bulleVars, cpVars>>

\* The heartbeat task k resumes: the (26, 26) frame is written on bulle when
\* there is one and it is open, heartbeat is dispatched with the time the
\* frames took and the task sleeps; the task ends when dispatch raises.
Heartbeat(k) ==
    LET on_bulle == bulle # 0 /\ conns[bulle].open
    IN  /\ k \in 1..Len(beat)
        /\ beat[k].pc = "second"
        /\ Step("heartbeat")
        /\ conns' = IF on_bulle
                    THEN [conns EXCEPT ![bulle] = send(@, Packet(26, 26))]
                    ELSE conns
        /\ dispatch("heartbeat", <<0>>)
        /\ beat' = [beat EXCEPT
               ![k].frames = IF on_bulle THEN Append(@, "bulle") ELSE @,
               ![k].pc = IF disp'.out = "raise" THEN "raised" ELSE "sleep",
               ![k].last_heartbeat = IF disp'.out = "raise" THEN @ ELSE now]
        /\ UNCHANGED <<main, shake, now, starting, bulle, switches, tradeVars, cpVars>>

\* asyncio.sleep(.5) of the heartbeat task k ends.
HeartbeatWakes(k) ==
    /\ k \in 1..Len(beat)
    /\ beat[k].pc = "sleep"
    /\ Step("heartbeat")
    /\ beat' = [beat EXCEPT ![k].pc = "loop"]
    /\ UNCHANGED <<main, shake, now, starting, tradeVars, busVars, bulleVars, cpVars>>

\* The clock of the loop advances.
Tick ==
    /\ now < MaxTime
    /\ now' = now + Quantum
    /\ UNCHANGED <<main, shake, beat, starting, loop, tradeVars, busVars, bulleVars, cpVars>>

(***************************************************************************)
(* Client.start.  Connection.connect is not part of the sources: it opens  *)
(* the connection or raises.                                               *)
(***************************************************************************)
\* for port in [13801, 11801, 12801, 14801]
Ports == <<13801, 11801, 12801, 14801>>

Host == "94.23.193.229"

\* What a connect ends in: it returns, or raises one of these.
Errors == {"OSError", "TimeoutError", "CancelledError"}
Outcomes == {"ok"} \cup Errors

FirstPort(tried) == Ports[1]

\* The port of the next iteration of the loop over the ports.
NextPort(tried) == Ports[Len(tried) + 1]

\* start is called: the keys are there and the loop over the ports begins.
start ==
    /\ starting.pc = "idle"
    /\ Step("start")
    /\ starting' = [starting EXCEPT !.pc = "connect"]
    /\ UNCHANGED <<main, shake, beat, now, tradeVars, busVars, bulleVars, cpVars>>

\* One iteration of the loop: connect returns and the loop breaks, or it
\* raises and the loop goes on; after the last port ConnectionError is raised.
connect(outcome) ==
    LET attempt == [host |-> Host, port |-> NextPort(starting.tried), outcome |-> outcome]
        tried == Append(starting.tried, attempt)
    IN  /\ starting.pc = "connect"
        /\ Step("start")
        /\ starting' =
               IF outcome = "ok" THEN [starting EXCEPT !.pc = "socket", !.tried = tried]
               ELSE IF Len(tried) = Len(Ports)
               THEN [pc |-> "raised", tried |-> tried, error |-> "ConnectionError"]
               ELSE [starting EXCEPT !.tried = tried]
        /\ main' = IF outcome = "ok" THEN [main EXCEPT !.open = TRUE] ELSE main
        /\ UNCHANGED <<shake, beat, now, tradeVars, busVars, bulleVars, cpVars>>

\* while not self.main.socket.connected ends.
socket_connected ==
    /\ starting.pc = "socket"
    /\ Step("start")
    /\ starting' = [starting EXCEPT !.pc = "hello"]
    /\ UNCHANGED <<main, shake, beat, now, tradeVars, busVars, bulleVars, cpVars>>

\* The (28, 1) frame is sent on main.
hello ==
    /\ starting.pc = "hello"
    /\ Step("start")
    /\ starting' = [starting EXCEPT !.pc = After(main, "locale")]
    /\ main' = Sent(main, Packet(28, 1))
    /\ UNCHANGED <<shake, beat, now, tradeVars, busVars, bulleVars, cpVars>>

\* await self.locale.load() returns and start ends.
locale_loaded ==
    /\ starting.pc = "locale"
    /\ Step("start")
    /\ starting' = [starting EXCEPT !.pc = "done"]
    /\ UNCHANGED <<main, shake, beat, now, tradeVars, busVars, bulleVars, cpVars>>

(***************************************************************************)
(* (44, 1) Bulle switching.  Connection is not part of the sources: a      *)
(* connection is made closed, connect opens it or raises, close closes it, *)
(* send on a closed connection raises.  Every frame is handled by a task   *)
(* of its own, suspended while it awaits connect.                          *)
(***************************************************************************)
\* The fields of the (44, 1) frame.
BulleIds == {1, 2}
BulleIps == {"51.75.130.180", "37.187.29.8"}

\* Connection('bulle', self, self.loop), to be connected to (host, port).
Connection(host, port) == [host |-> host, port |-> port, open |-> FALSE, sent |-> <<>>]

\* Packet.new(44, 1).write32(bulle_id)
Ack(bulle_id) == <<44, 1, bulle_id>>

BulleInit ==
    /\ bulle = 0
    /\ conns = <<>>
    /\ switches = <<>>

\* self.main.address: the host and the port main was connected to.
address(tried) == <<Host, tried[Len(tried)].port>>

\* The frame arrives on main.  Up to the suspension in connect: the current
\* bulle is closed, a new connection takes its place and its connect begins.
BulleSwitch(bulle_id, bulle_ip) ==
    LET closed == IF bulle # 0 THEN [conns EXCEPT ![bulle].open = FALSE] ELSE conns
        own == Len(conns) + 1
    IN  /\ main.open
        /\ ~loop.stopped
        /\ Len(switches) < MaxSwitches
        /\ conns' = Append(closed, Connection(bulle_ip, address(starting.tried)[2]))
        /\ bulle' = own
        /\ switches' = Append(switches, [pc |-> "connect", bulle_id |-> bulle_id, own |-> own])
        /\ UNCHANGED <<tradeVars, busVars, shakeVars, cpVars>>

\* The handler k resumes: its connect raised, or it returned and the
\* acknowledgement is sent on self.bulle.
BulleConnected(k, outcome) ==
    /\ k \in 1..Len(switches)
    /\ switches[k].pc = "connect"
    /\ ~loop.stopped
    /\ IF outcome # "ok"
       THEN /\ switches' = [switches EXCEPT ![k].pc = "raised"]
            /\ UNCHANGED conns
       ELSE LET opened == [conns EXCEPT ![switches[k].own].open = TRUE]
            IN  /\ conns' = [opened EXCEPT ![bulle] = Sent(@, Ack(switches[k].bulle_id))]
                /\ switches' = [switches EXCEPT ![k].pc = After(opened[bulle], "done")]
    /\ UNCHANGED <<bulle, tradeVars, busVars, shakeVars, cpVars>>

\* Client.sendRoomMessage, called by the user: the (6, 6) frame is sent on
\* bulle; the call raises when bulle is None or closed.
sendRoomMessage ==
    /\ ~loop.stopped
    /\ bulle # 0
    /\ Len(conns[bulle].sent) < MaxSent
    /\ conns' = [conns EXCEPT ![bulle] = Sent(@, Packet(6, 6))]
    /\ UNCHANGED <<bulle, switches, tradeVars, busVars, shakeVars, cpVars>>

(***************************************************************************)
(* Client.sendCP.  The counter is a 32-bit number, kept as its two 16-bit  *)
(* halves <<high, low>>.                                                   *)
(***************************************************************************)
\* 2^16
Half == 65536

\* The community platform codes of the callers (sendChannelMessage, getTribe).
CPCodes == {48, 108}

\* self.cp_fingerprint = 0
Zero == <<0, 0>>

\* 0XFFFFFFFF
Modulus == <<Half - 1, Half - 1>>

\* The counter after many calls, two short of the modulus.
NearModulus == <<Half - 1, Half - 3>>

\* x + 1, for x below 2^32 - 1
PlusOne(x) == IF x[2] = Half - 1 THEN <<x[1] + 1, 0>> ELSE <<x[1], x[2] + 1>>

\* (self.cp_fingerprint + 1) % 0XFFFFFFFF
Advance(x) == IF PlusOne(x) = Modulus THEN Zero ELSE PlusOne(x)

CPInit ==
    /\ cp_fingerprint = Zero
    /\ calls = <<>>

fp_reread(call) == cp_fingerprint

\* return fp
fp(call) == call.fp

\* sendCP is called.  Up to the suspension in send: the counter advances and
\* the (60, 3) frame with the code and the counter is written on main.
sendCP(code) ==
    LET packet == <<60, 3, code, Advance(cp_fingerprint)>>
    IN  /\ ~loop.stopped
        /\ Len(calls) < MaxCalls
        /\ cp_fingerprint' = Advance(cp_fingerprint)
        /\ main' = Sent(main, packet)
        /\ calls' = Append(calls, [pc |-> After(main, "send"), code |-> code,
                                   fp |-> Advance(cp_fingerprint), result |-> None])
        /\ UNCHANGED <<shake, beat, now, starting, loop, tradeVars, busVars, bulleVars>>

\* The call k resumes and returns.
sendCP_return(k) ==
    /\ k \in 1..Len(calls)
    /\ calls[k].pc = "send"
    /\ ~loop.stopped
    /\ calls' = [calls EXCEPT ![k].pc = "done", ![k].result = <<fp(calls[k])>>]
    /\ UNCHANGED <<cp_fingerprint, tradeVars, busVars, shakeVars, bulleVars>>

(***************************************************************************)
(* Client.close.  Connection.close is not part of the sources: it closes   *)
(* the connection.                                                         *)
(***************************************************************************)
\* The tasks that are suspended and can be ready to run.
Suspended ==
    {task \in Tasks :
        \/ task = "start" /\ starting.pc \in {"connect", "socket", "hello", "locale"}
        \/ task = "handler" /\ shake.pc \in {"community", "os_info"}
        \/ task = "heartbeat" /\ \E k \in 1..Len(beat) :
               beat[k].pc \in {"loop", "first", "second", "sleep"}}

\* close is called by the timer of on_login_result, by on_connection_error or
\* by the caller: main is closed, bulle is closed when there is one, the loop
\* is stopped.  batch is the tasks that were ready in the iteration of the
\* loop that ran close.
close(batch) ==
    /\ ~loop.stopped
    /\ batch \subseteq Suspended
    /\ main' = [main EXCEPT !.open = FALSE]
    /\ conns' = IF bulle # 0 THEN [conns EXCEPT ![bulle].open = FALSE] ELSE conns
    /\ loop' = [stopped |-> TRUE, batch |-> batch]
    /\ UNCHANGED <<shake, beat, now, starting, bulle, switches, tradeVars, busVars, cpVars>>

(***************************************************************************)
(* Spec: the frames that make, start, end and lock trades and change the   *)
(* roster, in any order, with up to MaxTrades trades.                      *)
(***************************************************************************)
Init == TradeInit /\ BusInit /\ ShakeInit /\ BulleInit /\ CPInit

Lifecycle(limit) ==
    \/ JoinedRoom
    \/ \E roster \in Rosters : SetPlayerList(roster)
    \/ \E pid \in Pids : AddPlayer(pid)
    \/ \E pid \in Pids : RemovePlayer(pid)
    \/ \E pid \in Pids : TradeInvite(pid, limit)
    \/ \E name \in FrameNames, error \in ErrorCodes : TradeError(name, error)
    \/ \E pid \in Pids : TradeStart(pid)
    \/ \E me, locked \in BOOLEAN : TradeLock(me, locked)
    \/ TradeComplete

Next == Lifecycle(MaxTrades)

Spec == Init /\ [][Next]_vars

(***************************************************************************)
(* ItemSpec: the same frames and the item frames, with up to MaxItemTrades *)
(* trades.                                                                 *)
(***************************************************************************)
ItemFrames ==
    \/ Lifecycle(MaxItemTrades)
    \/ \E me, adding \in BOOLEAN, id \in ItemIds, quantity \in Quantities :
          TradeItems(me, id, adding, quantity)

ItemNext == ItemFrames

ItemSpec == Init /\ [][ItemNext]_vars

(***************************************************************************)
(* BusSpec: callers wait for events and register handlers, frames dispatch *)
(* events, timeouts elapse and the scheduled handlers run, in any order.   *)
(***************************************************************************)
BusSteps ==
    \/ \E name \in WaitNames, condition \in Conditions, stop \in BOOLEAN :
          wait_for(name, condition, stop)
    \/ \E fut \in 1..MaxWaiters : TimedOut(fut)
    \/ \E name \in Decorated : event(name)
    \/ Ping
    \/ \E line \in LogLines : LuaLog(line)
    \/ \E code \in LoginCodes : LoginResult(code)
    \/ on_login_result
    \/ \E raises \in BOOLEAN : on_event(raises)

BusNext == BusSteps

BusSpec == Init /\ [][BusNext]_vars

(***************************************************************************)
(* Properties of the trade and roster frames.                              *)
(***************************************************************************)
TradeIds == 1..Len(trades)

\* The last frame was an item frame, handled for trade t.
ItemFrameFor(t) ==
    /\ last.kind = "trade_items"
    /\ ~raised
    /\ events[1].t = t

\* C1: in every trade and on each side, the item mapping holds for every id the
\* sum of the signed quantities the item frames carried for it, and holds no
\* entry for an id whose sum is zero.
C1_ItemsAreNetOfDeltas ==
    \A t \in TradeIds, id \in ItemIds :
        /\ Get(trades[t].items_me, id) = received[t].me[id]
        /\ Get(trades[t].items_other, id) = received[t].other[id]
        /\ id \in DOMAIN trades[t].items_me => trades[t].items_me[id] # 0
        /\ id \in DOMAIN trades[t].items_other => trades[t].items_other[id] # 0

\* An item frame has just removed the last unit of an id: only id 20 on the
\* client's side is left in the mappings.
C1_Witness ==
    /\ trade # 0
    /\ ItemFrameFor(trade)
    /\ events[1].x = -1
    /\ DOMAIN trades[trade].items_me = {20}
    /\ DOMAIN trades[trade].items_other = {}

\* C2: after an item frame is handled, neither side of the trade it changed is
\* locked, whatever the lock flags were when it arrived.
C2_ItemFrameUnlocksBoth ==
    \A t \in TradeIds :
        ItemFrameFor(t) => ~trades[t].locked_me /\ ~trades[t].locked_other

\* An item frame was handled for a trade both sides had locked.
C2_Witness ==
    /\ trade # 0
    /\ ItemFrameFor(trade)
    /\ last.pre_me
    /\ last.pre_other

\* C3: the player of every active trade is among the players of the room.
C3_ActiveTradeHasPlayerInRoom ==
    \A t \in TradeIds :
        Active(trades[t]) =>
            /\ room # None
            /\ get_player(room[1].players, trades[t].pid) # 0

\* The step removes, by (8, 7) or by a roster that leaves them out, the player
\* who holds the active trade t.
RemovesHolderOf(t) ==
    /\ room # None
    /\ \/ \E pid \in Pids :
             /\ RemovePlayer(pid)
             /\ get_player(room[1].players, pid) # 0
             /\ room[1].players[get_player(room[1].players, pid)].trade = t
             /\ Active(trades[t])
       \/ \E roster \in Rosters :
             /\ SetPlayerList(roster)
             /\ t \in HeldByAbsent(room[1].players, roster)

\* Event e is among the events dispatched by the last frame exactly n times.
DispatchedTimes(evs, e, n) == Cardinality({k \in 1..Len(evs) : evs[k] = e}) = n

\* C4: a frame that removes the player holding an active trade is handled
\* without an exception, closes the trade and dispatches exactly one
\* trade_close for it.
C4_RemovalClosesTradeOnce ==
    [][\A t \in TradeIds :
          RemovesHolderOf(t) =>
              /\ ~raised'
              /\ ~trades'[t].alive
              /\ DispatchedTimes(events', Event("trade_close", t, 0), 1)]_vars

\* C10: a trade-error frame that concerns a tracked trade closes it and
\* dispatches trade_error with that trade and the code, then trade_close with
\* that trade.
C10_TradeErrorIsReported ==
    [][\A name \in FrameNames, error \in ErrorCodes :
          (TradeError(name, error) /\ Concerned(name) # {}) =>
              /\ ~raised'
              /\ \E t \in Concerned(name) :
                    /\ ~trades'[t].alive
                    /\ events' = <<Event("trade_error", t, error),
                                   Event("trade_close", t, 0)>>]_vars

(***************************************************************************)
(* HandshakeSpec: start connects main; the (26, 3) frame arrives on main;   *)
(* its handler and the heartbeat task it creates run in any order between  *)
(* their suspension points.                                                *)
(***************************************************************************)
HandshakeNext ==
    \/ start
    \/ \E outcome \in Outcomes : connect(outcome)
    \/ socket_connected
    \/ hello
    \/ locale_loaded
    \/ \E online_players \in Online, fingerprint \in Fingerprints :
          HandshakeOK(online_players, fingerprint, MaxHandshakes)
    \/ SendOsInfo
    \/ LoginReady
    \/ \E fingerprint \in Offsets : FingerprintChanged(fingerprint)
    \/ \E k \in 1..MaxHandshakes : HeartbeatLoop(k)
    \/ \E k \in 1..MaxHandshakes : HeartbeatAgain(k)
    \/ \E k \in 1..MaxHandshakes : Heartbeat(k)
    \/ \E k \in 1..MaxHandshakes : HeartbeatWakes(k)
    \/ Tick
    \/ \E batch \in SUBSET Tasks : close(batch)

HandshakeSpec == Init /\ [][HandshakeNext]_vars

\* The loop runs every task that can run.
HeartbeatSpec ==
    /\ HandshakeSpec
    /\ \A k \in 1..MaxHandshakes : WF_vars(HeartbeatLoop(k))
    /\ \A k \in 1..MaxHandshakes : WF_vars(HeartbeatAgain(k))
    /\ \A k \in 1..MaxHandshakes : WF_vars(Heartbeat(k))
    /\ \A k \in 1..MaxHandshakes : WF_vars(HeartbeatWakes(k))

(***************************************************************************)
(* KeepaliveSpec: the client starts and connects at once, the (26, 3)      *)
(* frame arrives, its heartbeat task runs while (44, 1) frames replace     *)
(* the bulle and the client is closed.                                     *)
(***************************************************************************)
KeepaliveNext ==
    \/ start
    \/ connect("ok")
    \/ socket_connected
    \/ hello
    \/ locale_loaded
    \/ \E online_players \in Online, fingerprint \in Fingerprints :
          HandshakeOK(online_players, fingerprint, MaxHandshakes)
    \/ SendOsInfo
    \/ LoginReady
    \/ \E k \in 1..MaxHandshakes : HeartbeatLoop(k)
    \/ \E k \in 1..MaxHandshakes : HeartbeatAgain(k)
    \/ \E k \in 1..MaxHandshakes : Heartbeat(k)
    \/ \E k \in 1..MaxHandshakes : HeartbeatWakes(k)
    \/ Tick
    \/ \E bulle_ip \in BulleIps : BulleSwitch(1, bulle_ip)
    \/ \E k \in 1..MaxSwitches, outcome \in Outcomes : BulleConnected(k, outcome)
    \/ \E batch \in SUBSET Tasks : close(batch)

KeepaliveSpec == Init /\ [][KeepaliveNext]_vars

(***************************************************************************)
(* CPSpec: the client starts and connects at once, sendCP is called up to  *)
(* MaxCalls times, the calls return in any order and the client is closed. *)
(* The counter starts at zero or close to its modulus.                     *)
(***************************************************************************)
CPStart ==
    /\ TradeInit /\ BusInit /\ ShakeInit /\ BulleInit
    /\ cp_fingerprint \in {Zero, NearModulus}
    /\ calls = <<>>

CPNext ==
    \/ start
    \/ connect("ok")
    \/ socket_connected
    \/ hello
    \/ locale_loaded
    \/ \E code \in CPCodes : sendCP(code)
    \/ \E k \in 1..MaxCalls : sendCP_return(k)
    \/ \E batch \in SUBSET Tasks : close(batch)

CPSpec == CPStart /\ [][CPNext]_vars

(***************************************************************************)
(* BeatSpec: the client starts and connects at once, up to MaxBeats        *)
(* (26, 3) frames arrive one after the other and the heartbeat tasks they  *)
(* create run in any order, until the client is closed.                    *)
(***************************************************************************)
BeatNext ==
    \/ start
    \/ connect("ok")
    \/ socket_connected
    \/ hello
    \/ locale_loaded
    \/ \E online_players \in Online, fingerprint \in Fingerprints :
          HandshakeOK(online_players, fingerprint, MaxBeats)
    \/ SendOsInfo
    \/ LoginReady
    \/ \E k \in 1..MaxBeats : HeartbeatLoop(k)
    \/ \E k \in 1..MaxBeats : HeartbeatAgain(k)
    \/ \E k \in 1..MaxBeats : Heartbeat(k)
    \/ \E k \in 1..MaxBeats : HeartbeatWakes(k)
    \/ Tick
    \/ \E batch \in SUBSET Tasks : close(batch)

BeatSpec == Init /\ [][BeatNext]_vars

(***************************************************************************)
(* BulleSpec: the client starts, (44, 1) frames arrive on main, their      *)
(* handlers resume in any order, the user sends room messages and the      *)
(* client is closed.                                                       *)
(***************************************************************************)
BulleNext ==
    \/ start
    \/ \E outcome \in Outcomes : connect(outcome)
    \/ socket_connected
    \/ hello
    \/ locale_loaded
    \/ \E bulle_id \in BulleIds, bulle_ip \in BulleIps : BulleSwitch(bulle_id, bulle_ip)
    \/ \E k \in 1..MaxSwitches, outcome \in Outcomes : BulleConnected(k, outcome)
    \/ sendRoomMessage
    \/ \E batch \in SUBSET Tasks : close(batch)

BulleSpec == Init /\ [][BulleNext]_vars

(***************************************************************************)
(* TableSpec: frames without a branch arrive while callers wait for raw_cp *)
(* and old_packet and the room fills.                                      *)
(***************************************************************************)
TableWaitNames == {"on_raw_cp", "on_old_packet"}

TableNext ==
    \/ \E name \in TableWaitNames, condition \in Conditions, stop \in BOOLEAN :
          wait_for(name, condition, stop)
    \/ \E fut \in 1..MaxWaiters : TimedOut(fut)
    \/ JoinedRoom
    \/ \E pid \in Pids : AddPlayer(pid)
    \/ \E CCC \in UnknownCodes : UnknownPacket(CCC)
    \/ \E TC \in UnknownTCs : UnknownCP(TC)
    \/ \E oldCCC \in UnknownOldCodes : UnknownOldPacket(oldCCC)

TableSpec == Init /\ [][TableNext]_vars

\* A step that handles a (31, 8), (31, 9) or (31, 10) frame.
ItemLockOrComplete ==
    \/ \E me, adding \in BOOLEAN, id \in ItemIds, quantity \in Quantities :
          TradeItems(me, id, adding, quantity)
    \/ \E me, locked \in BOOLEAN : TradeLock(me, locked)
    \/ TradeComplete

\* C16: a (31, 8), (31, 9) or (31, 10) frame that arrives when there is no
\* current trade, or when the current trade is closed, is handled without an
\* exception and leaves every closed trade as it was.
C16_LateFrameIsIgnored ==
    [][(ItemLockOrComplete /\ (trade = 0 \/ ~trades[trade].alive))
       => /\ ~raised'
          /\ \A t \in TradeIds : ~trades[t].alive => trades'[t] = trades[t]]_vars

\* The trade-start frame for the counterparty pid arrives while that player is
\* in the room.
StartsTradeWith(pid) ==
    /\ TradeStart(pid)
    /\ room # None
    /\ get_player(room[1].players, pid) # 0

\* The trade the player with pid holds in the room, 0 for none.
TradeOf(pid) == room[1].players[get_player(room[1].players, pid)].trade

\* C17: after a trade-start frame for the counterparty P the current trade is
\* P's and it is alive and no longer an invite; a different current trade is
\* closed first, with one trade_close before trade_start; a start for the
\* counterparty whose trade is already current closes nothing; a start with no
\* invited trade does not fail.
C17_TradeStartMakesTradeCurrent ==
    [][\A pid \in Pids :
          StartsTradeWith(pid) =>
              /\ ~raised'
              /\ trade' # 0
              /\ trades'[trade'].pid = pid
              /\ Active(trades'[trade'])
              /\ ~trades'[trade'].on_invite
              /\ events'[Len(events')] = Event("trade_start", trade', 0)
              /\ (trade # 0 /\ trade # TradeOf(pid)) =>
                    /\ ~trades'[trade].alive
                    /\ events' = <<Event("trade_close", trade, 0),
                                   Event("trade_start", trade', 0)>>
              /\ (trade # 0 /\ trade = TradeOf(pid)) =>
                    /\ trade' = trade
                    /\ DispatchedTimes(events', Event("trade_close", trade, 0), 0)]_vars

\* The live trades with the counterparty pid.
LiveWith(pid) == {t \in TradeIds : trades[t].alive /\ trades[t].pid = pid}

\* C18: the trade registry holds at most one live trade per counterparty.
C18_OneLiveTradePerCounterparty ==
    \A pid \in Pids : Cardinality(LiveWith(pid)) <= 1

\* C25: the current trade, when there is one, is alive.
C25_CurrentTradeIsAlive ==
    trade # 0 => trades[trade].alive

\* C25 witness: a trade-start frame has closed the trade that was current
\* and made another trade current, and that trade is alive.
C25_Witness ==
    /\ last.kind = "trade_start"
    /\ ~raised
    /\ trade # 0
    /\ trades[trade].alive
    /\ \E t \in TradeIds :
           /\ t # trade
           /\ ~trades[t].alive
           /\ events = <<Event("trade_close", t, 0), Event("trade_start", trade, 0)>>

\* No two players have the same persistent id.
DistinctPids(players) ==
    \A i, j \in 1..Len(players) : players[i].pid = players[j].pid => i = j

\* C26: no frame leaves two players with the same persistent id in the room,
\* and a player-added frame for an id already in the room puts the new
\* entry in the place of the old one and dispatches player_update alone.
C26_RosterHasDistinctPids ==
    [][/\ room' # None => DistinctPids(room'[1].players)
       /\ \A pid \in Pids :
              (AddPlayer(pid) /\ room # None /\ get_player(room[1].players, pid) # 0) =>
                  /\ Len(room'[1].players) = Len(room[1].players)
                  /\ room'[1].players[Len(room'[1].players)].pid = pid
                  /\ events' = <<Event("player_update", 0, 0)>>
                  /\ ~raised']_vars

\* C26 witness: a player-added frame for an id already in the room was
\* handled with player_update, and the room has its two players, the updated
\* one last.
C26_Witness ==
    /\ last.kind = "add_player"
    /\ events = <<Event("player_update", 0, 0)>>
    /\ room # None
    /\ Len(room[1].players) = 2
    /\ room[1].players[1].pid = 2
    /\ room[1].players[2].pid = 1

(***************************************************************************)
(* Properties of the event bus                                             *)
(***************************************************************************)
\* The occurrences the frames of BusSpec dispatch.
Occurrences ==
    {[ev |-> "ping", args |-> <<>>]}
    \cup {[ev |-> "lua_log", args |-> <<line>>] : line \in LogLines}
    \cup {[ev |-> "login_result", args |-> <<code, 0, 0>>] : code \in LoginCodes}
    \cup {[ev |-> "login_ready", args |-> <<online_players, 1, 2>>] :
              online_players \in Online}
    \cup {[ev |-> "heartbeat", args |-> <<0>>]}

\* The waiters registered for the method of an occurrence, in registration
\* order.
WaitersOf(ev) ==
    IF Method(ev) \in DOMAIN _waiters THEN _waiters[Method(ev)] ELSE <<>>

\* The waiter at position i is outstanding and its predicate is true of args.
Matches(W, i, args) ==
    /\ futures[W[i].fut].state = "pending"
    /\ Eval(W[i].cond, args) = "true"

\* C5: a step of dispatch(event, args) resolves, with the payload of args,
\* the future of every outstanding waiter registered for the event whose
\* predicate is true of args, unless an earlier such waiter has the
\* stopPropagation flag.
C5_MatchingWaiterIsResolved ==
    [][\A o \in Occurrences :
          dispatch(o.ev, o.args) =>
              LET W == WaitersOf(o.ev)
              IN  \A i \in 1..Len(W) :
                      (/\ Matches(W, i, o.args)
                       /\ \A j \in 1..(i - 1) : ~(W[j].stop /\ Matches(W, j, o.args)))
                      => futures'[W[i].fut] = Result(o.args)]_vars

\* The position in W of the waiter with the stopPropagation flag that the step
\* resolved, 0 when there is none.
Stopper(W) ==
    LET resolved == {i \in 1..Len(W) :
                        /\ W[i].stop
                        /\ futures[W[i].fut].state = "pending"
                        /\ futures'[W[i].fut].state = "result"}
    IN  IF resolved = {} THEN 0 ELSE Min(resolved)

\* The futures of the waiters at positions from..to of W that are not
\* cancelled, in registration order.
RECURSIVE Live(_, _, _)
Live(W, from, to) ==
    IF from > to THEN <<>>
    ELSE IF futures[W[from].fut].state = "cancelled" THEN Live(W, from + 1, to)
    ELSE <<W[from].fut>> \o Live(W, from + 1, to)

\* C6: when a step of dispatch resolves a waiter with the stopPropagation
\* flag, the waiters registered after it are not evaluated, their futures
\* and their registrations are as before, and no handler task is
\* scheduled; the waiters registered before it were evaluated in
\* registration order and those whose predicate is true were resolved.
C6_StopPropagationEndsDispatch ==
    [][\A o \in Occurrences :
          (dispatch(o.ev, o.args) /\ Stopper(WaitersOf(o.ev)) # 0) =>
              LET W == WaitersOf(o.ev)
                  at == Stopper(W)
                  after == _waiters'[Method(o.ev)]
              IN  /\ tasks' = tasks
                  /\ ~disp'.scheduled
                  /\ disp'.evaluated = Live(W, 1, at)
                  /\ \A i \in 1..(at - 1) :
                         Matches(W, i, o.args) => futures'[W[i].fut] = Result(o.args)
                  /\ \A i \in (at + 1)..Len(W) :
                         /\ futures'[W[i].fut] = futures[W[i].fut]
                         /\ \E k \in 1..Len(after) : after[k] = W[i]]_vars

\* C6 witness: the last dispatch stopped at the first waiter of its event,
\* a waiter registered later for the event is still outstanding, the event
\* has a handler and no task was scheduled for it.
C6_Witness ==
    /\ disp.out = "stop"
    /\ ~disp.scheduled
    /\ tasks = <<>>
    /\ handlers[disp.method] # "none"
    /\ disp.method \in DOMAIN _waiters
    /\ \E i \in 1..Len(_waiters[disp.method]) :
           LET w == _waiters[disp.method][i]
           IN  /\ w.fut > disp.evaluated[1]
               /\ Eval(w.cond, disp.args) = "true"
               /\ futures[w.fut].state = "pending"

\* C7: no waiter in the registry has a future that its timeout cancelled.
C7_TimedOutWaiterIsRemoved ==
    \A w \in Registered : futures[w.fut].state # "cancelled"

\* C8: every login-result frame schedules Client.on_login_result with the
\* code of the frame, and the task schedules the close of the client and
\* raises the exception of the code.
C8_LoginResultSchedulesClose ==
    [][/\ \A code \in LoginCodes :
              LoginResult(code) =>
                  tasks' = Append(tasks, [method |-> "on_login_result",
                                          args |-> <<code, 0, 0>>,
                                          coro |-> "default"])
       /\ \A raises \in BOOLEAN :
              (on_login_result \/ on_event(raises)) /\ Head(tasks).method = "on_login_result" =>
                  /\ closing'
                  /\ reported'.error = LoginFailure(Head(tasks).args[1])]_vars

\* The futures a dispatch evaluated the condition of.
Evaluated(d) == {d.evaluated[k] : k \in 1..Len(d.evaluated)}

\* C11: when the predicate of a waiter throws during a step of dispatch, the
\* waiter's future holds the exception and dispatch does not raise.
C11_ThrowingPredicateNeverRaises ==
    [][\A o \in Occurrences :
          dispatch(o.ev, o.args) =>
              LET W == WaitersOf(o.ev)
              IN  \A i \in 1..Len(W) :
                      (/\ W[i].fut \in Evaluated(disp')
                       /\ Eval(W[i].cond, o.args) = "raise")
                      => /\ disp'.out # "raise"
                         /\ futures'[W[i].fut] = Exception("IndexError")]_vars

Completed(fut) ==
    /\ futures[fut].state = "pending"
    /\ futures'[fut].state \in {"result", "exception"}

\* C19: when a step of dispatch returns, every waiter of the event whose
\* future the step completed with a result or an exception, and every waiter
\* whose future it found cancelled, is no longer in the registry, also when a
\* stopPropagation waiter ended the loop; and no step of dispatch completes a
\* future that is already done.
C19_CompletedWaiterLeavesRegistry ==
    [][\A o \in Occurrences :
          dispatch(o.ev, o.args) =>
              /\ disp'.out # "raise"
              /\ \A fut \in 1..Len(futures) :
                     (/\ \E i \in 1..Len(WaitersOf(o.ev)) : WaitersOf(o.ev)[i].fut = fut
                      /\ Completed(fut) \/ futures[fut].state = "cancelled")
                     => \A m \in DOMAIN _waiters' :
                            \A k \in 1..Len(_waiters'[m]) : _waiters'[m][k].fut # fut]_vars

(***************************************************************************)
(* Properties of the handshake                                             *)
(***************************************************************************)
\* The frames written on main since the (26, 3) frame arrived.
SentSinceHandshake == SubSeq(main.sent, shake.mark + 1, Len(main.sent))

\* C9: once the (26, 3) frame has arrived, the first frame written on main
\* is (8, 2) and the second is (28, 17).
C9_HandshakeRepliesComeFirst ==
    shake.pc # "idle" =>
        /\ Len(SentSinceHandshake) >= 1 => SentSinceHandshake[1] = Packet(8, 2)
        /\ Len(SentSinceHandshake) >= 2 => SentSinceHandshake[2] = Packet(28, 17)

\* The handler of the (26, 3) frame has written (8, 2) and, after it,
\* (28, 17) on main.
RepliesSent ==
    \E i, j \in 1..Len(SentSinceHandshake) :
        /\ i < j
        /\ SentSinceHandshake[i] = Packet(8, 2)
        /\ SentSinceHandshake[j] = Packet(28, 17)

\* The step dispatches login_ready after both replies, with the players
\* online, the community and the country of the frame, in that order.
LoginReadyAfterReplies ==
    LoginReady =>
        /\ RepliesSent
        /\ disp'.method = "on_login_ready"
        /\ disp'.args = <<shake.online_players, 1, 2>>

C13_UnknownFrameIsUnhandled ==
    [][(\/ \E CCC \in UnknownCodes : UnknownPacket(CCC)
        \/ \E TC \in UnknownTCs : UnknownCP(TC)
        \/ \E oldCCC \in UnknownOldCodes : UnknownOldPacket(oldCCC))
       => /\ ~raised'
          /\ ~last'.handled
          /\ UNCHANGED <<room, trades, trade>>]_vars

(***************************************************************************)
(* Properties of Client.start                                              *)
(***************************************************************************)
\* The connects start has made so far.
Tried == starting.tried

\* C14: the k-th connect of start goes to the fixed host on the k-th port of
\* 13801, 11801, 12801, 14801; no connect follows one that succeeded; and
\* start raises ConnectionError exactly when four connects have failed.
C14_PortsTriedInOrder ==
    /\ Len(Tried) <= 4
    /\ \A k \in 1..Len(Tried) :
           /\ Tried[k].host = "94.23.193.229"
           /\ Tried[k].port = <<13801, 11801, 12801, 14801>>[k]
           /\ k < Len(Tried) => Tried[k].outcome # "ok"
    /\ starting.error = "ConnectionError" <=>
           (Len(Tried) = 4 /\ \A k \in 1..4 : Tried[k].outcome # "ok")

\* C14 witness: start ended after two failed connects and a third that
\* succeeded.
C14_Witness ==
    /\ starting.pc = "done"
    /\ Len(Tried) = 3
    /\ Tried[3].outcome = "ok"
    /\ Tried[3].port = 12801

(***************************************************************************)
(* Properties of the heartbeat                                             *)
(***************************************************************************)
\* C15: once main is closed, the heartbeat task that was created ends.
C15_HeartbeatEndsAfterClose ==
    (beat # <<>> /\ ~main.open) ~> (beat # <<>> /\ beat[1].pc \in {"ended", "raised"})

\* The frame (26, 26) is written on the connection in the step.
Keepalive(before, after) == after.sent = Append(before.sent, Packet(26, 26))

\* C22: a heartbeat writes (26, 26) on main when it begins and, main still
\* open, a second time; when it goes on from there it has written exactly
\* these two frames, writes one (26, 26) on bulle if and only if there is a
\* bulle and it is open, and dispatches heartbeat; a task begins a heartbeat
\* only while main is open and at least 15 seconds after it began its last.
C22_HeartbeatSendsKeepalives ==
    [][\A k \in 1..MaxHandshakes :
          /\ (HeartbeatLoop(k) /\ beat'[k].pc = "first") =>
                 /\ main.open
                 /\ Keepalive(main, main')
                 /\ beat[k].began # -1 => now - beat[k].began >= Interval
          /\ (HeartbeatAgain(k) /\ main.open) =>
                 /\ Keepalive(main, main')
                 /\ beat'[k].pc = "second"
          /\ Heartbeat(k) =>
                 /\ beat[k].frames = <<"main", "main">>
                 /\ main' = main
                 /\ IF bulle # 0 /\ conns[bulle].open
                    THEN /\ Keepalive(conns[bulle], conns'[bulle])
                         /\ \A c \in 1..Len(conns) : c # bulle => conns'[c] = conns[c]
                    ELSE conns' = conns
                 /\ disp'.method = "on_heartbeat"
                 /\ disp'.out = "loop"]_vars

\* C22 witness: a task is in its second heartbeat, begun 15 seconds or more
\* after the first, and has written two frames on main and one on the open
\* bulle in it.
C22_Witness ==
    /\ beat # <<>>
    /\ beat[1].pc = "sleep"
    /\ beat[1].frames = <<"main", "main", "bulle">>
    /\ beat[1].began >= 2 * Interval
    /\ disp.method = "on_heartbeat"
    /\ bulle # 0
    /\ conns[bulle].open

\* The heartbeat tasks that were created and have not ended.
Running == {k \in 1..Len(beat) : beat[k].pc \notin {"ended", "raised"}}

\* C24: at most one heartbeat task is running.
C24_OneHeartbeatLoop == Cardinality(Running) <= 1

(***************************************************************************)
(* Properties of the bulle switching                                       *)
(***************************************************************************)
\* C20: a (44, 1) frame with (id, host) leaves the previous bulle closed when
\* the new connection is made, the new connection is the one connected to host
\* on the port of main, and when the handler of the frame resumes from a
\* connect that returned, the acknowledgement with id is written on the
\* connection the handler made, whatever ran during the connect.
C20_AckGoesOnOwnConnection ==
    [][/\ \A bulle_id \in BulleIds, bulle_ip \in BulleIps :
              BulleSwitch(bulle_id, bulle_ip) =>
                  /\ bulle # 0 => ~conns'[bulle].open
                  /\ ~conns'[bulle'].open
                  /\ conns'[bulle'].host = bulle_ip
                  /\ \E i \in 1..Len(starting.tried) :
                         /\ starting.tried[i].outcome = "ok"
                         /\ starting.tried[i].port = conns'[bulle'].port
       /\ \A k \in 1..MaxSwitches :
              BulleConnected(k, "ok") =>
                  LET own == switches[k].own
                  IN  /\ switches'[k].pc = "done"
                      /\ conns'[own].sent = Append(conns[own].sent, Ack(switches[k].bulle_id))
                      /\ \A c \in 1..Len(conns) : c # own => conns'[c].sent = conns[c].sent]_vars

(***************************************************************************)
(* Properties of Client.sendCP                                             *)
(***************************************************************************)
\* The counter is x and the call takes it to y: one more, and zero after
\* 0xFFFFFFFE.
OneMore(x, y) ==
    IF x = <<Half - 1, Half - 2>> THEN y = <<0, 0>>
    ELSE IF x[2] = Half - 1 THEN y = <<x[1] + 1, 0>>
    ELSE y = <<x[1], x[2] + 1>>

\* C23: a call of sendCP takes the counter one further, modulo 0xFFFFFFFF,
\* and writes the new value in the frame it sends; the call returns that
\* value, whatever calls ran while it was suspended; and no two calls have
\* the same value.
C23_EachCallHasItsOwnId ==
    [][/\ \A code \in CPCodes :
              sendCP(code) =>
                  /\ OneMore(cp_fingerprint, cp_fingerprint')
                  /\ calls'[Len(calls')].fp = cp_fingerprint'
                  /\ main.open =>
                         main'.sent = Append(main.sent, <<60, 3, code, cp_fingerprint'>>)
       /\ \A k \in 1..MaxCalls :
              sendCP_return(k) =>
                  /\ calls'[k].result = <<calls[k].fp>>
                  /\ \E i \in 1..Len(main.sent) :
                         main.sent[i] = <<60, 3, calls[k].code, calls'[k].result[1]>>
                  /\ \A j \in 1..Len(calls) :
                         j # k => calls'[k].result # <<calls[j].fp>>]_vars

\* C23 witness: three calls were made from a counter two short of the
\* modulus, the counter wrapped to zero at the second, the first two have
\* returned the values of their own frames and the third is suspended.
C23_Witness ==
    /\ Len(calls) = 3
    /\ calls[1].result = <<<<Half - 1, Half - 2>>>>
    /\ calls[2].result = <<Zero>>
    /\ calls[3].pc = "send"
    /\ cp_fingerprint = <<0, 1>>
    /\ Len(main.sent) = 4

====
